---- MODULE Spec2Model ----
(***************************************************************************)
(* Model of the dispatch engine of bot.py: the channel registry            *)
(* (channels.json), the broadcast algorithm broadcast_copy, the ledger     *)
(* (posts.json) and the outbox sweep outbox_loop (outbox.json).            *)
(*                                                                         *)
(* The program is one asyncio event loop.  A coroutine runs without        *)
(* interruption from one suspending await to the next, so every action     *)
(* below is one such segment.  The suspending awaits are the transport     *)
(* calls (copy_message, send_message, send_document, reply_text) and       *)
(* asyncio.sleep.  write_log returns at once, and file_lock is never held  *)
(* across a suspending await, so acquiring it never suspends either.       *)
(*                                                                         *)
(* Time is counted in ticks and kept relative to the present, since the    *)
(* code only ever uses differences with the current time: a timestamp is   *)
(* held as its age (now - timestamp, capped where the code stops caring),  *)
(* a wake-up time and a send_at as the ticks still to go (0 = reached).    *)
(* Tick moves every one of them.  asyncio.sleep(d) wakes no earlier than   *)
(* d ticks later and possibly later than that.                             *)
(***************************************************************************)
EXTENDS Integers, Sequences, FiniteSets, TLC

\* ------------------------------------------------------------- bounds
NumChannelIds == 2      \* channel identifiers 1..NumChannelIds
NumHandlers == 1        \* handle_message tasks that may run next to the sweep
MaxInitOutbox == 1      \* entries in the outbox file at start
MaxLoad == 3            \* channel ids in use + entries at start + admin messages
MaxRetryCount == 2      \* SEND_RETRY_COUNT ranges over 1..MaxRetryCount
MaxThreshold == 2       \* FORBIDDEN_THRESHOLD ranges over 1..MaxThreshold
MaxDelay == 1           \* /schedule asks for now + 0..MaxDelay

\* ------------------------------------------- configuration (in ticks)
SEND_RETRY_DELAY == 1
INTER_SEND_DELAY == 1
JITTER == 1
PER_CHANNEL_COOLDOWN == 2
SWEEP_INTERVAL == 1

ChannelIds == 1..NumChannelIds
Handlers == 1..NumHandlers
SweepTask == 0
Callers == Handlers \cup {SweepTask}

VARIABLES
    scope,             \* the run's share of MaxLoad: ids in use, messages, entries at start
    startup_sending,   \* history: the entries outbox.json held as `sending` at startup
    config,            \* SEND_RETRY_COUNT, FORBIDDEN_THRESHOLD, REMOVE_ON_FORBIDDEN
    channels,          \* channels.json
    posts,             \* posts.json
    outbox,            \* outbox.json
    last_sent_times,   \* in-memory; held as now - last_sent_times[ch], NoEntry = no entry
    forbidden_counts,  \* in-memory, 0 = no entry
    bc,                \* one broadcast_copy frame per caller
    sw,                \* the frame of outbox_loop
    next_mid,          \* next fresh message id
    attempt_age,       \* history: ticks since the latest send attempt to each channel,
                       \* capped at PER_CHANNEL_COOLDOWN (also when there was none)
    scheduled,         \* history: message ids persisted by handle_schedule
    stale,             \* history: the sweep's snapshot of the outbox is superseded
    stale_writes,      \* history: collections saved from a superseded read
    calls,             \* history: broadcast_copy calls returned, by registry seen
    dispatches         \* history: times the dispatch loop took the entry of each message

vars == <<scope, startup_sending, config, channels, posts, outbox, last_sent_times, forbidden_counts, bc, sw,
          next_mid, attempt_age, scheduled, stale, stale_writes, calls, dispatches>>

\* ------------------------------------------------------------ helpers
\* `x in list`
Contains(s, x) == \E i \in DOMAIN s : s[i] = x

\* list.remove(x): drops the first occurrence
RECURSIVE ListRemove(_, _)
ListRemove(s, x) ==
    IF s = <<>> THEN <<>>
    ELSE IF Head(s) = x THEN Tail(s)
    ELSE <<Head(s)>> \o ListRemove(Tail(s), x)

Outcome(ch, st) == [channel |-> ch, status |-> st]

NoEntry == -1

\* datetime.fromisoformat(entry.get('send_at')): a send_at is either the ISO
\* text of an instant, t ticks from now (ok), or text that does not parse.
ParsesOk(send_at) == send_at.ok
TicksUntil(send_at) == send_at.t

\* err_name is the local of line 267; it is only read while the frame waits
\* for its retry delay, so it is blanked outside that wait.  slept is
\* history: the ticks the sleep of line 296 has lasted so far, counted up
\* to INTER_SEND_DELAY; alone is history: no other broadcast_copy call has
\* been running at any time since this one started.
IdleFrame ==
    [pc |-> "idle", channels |-> <<>>, i |-> 0, attempt |-> 0,
     results |-> <<>>, wake |-> 0, mid |-> 0, err_name |-> "", slept |-> 0,
     alone |-> FALSE]

\* A broadcast_copy call is running in frame f.
InCall(f) == f.pc \in {"cool", "send", "retry", "pace"}

SleepingSweep(t) ==
    [pc |-> "sleep", outbox |-> <<>>, k |-> 0, fchannels |-> <<>>, fi |-> 0,
     fresults |-> <<>>, wake |-> t]

NewEntry(mid, type, send_at, status) ==
    [message_id |-> mid, type |-> type, send_at |-> send_at, status |-> status,
     has_ref |-> TRUE, results |-> <<>>, sent_at |-> FALSE]

\* ------------------------------------------------- the program state
\* The mutable state as one record, so that the code of one segment is a
\* composition of functions on it.  config and next_mid are read only.
Cur ==
    [channels |-> channels, posts |-> posts, outbox |-> outbox,
     last_sent_times |-> last_sent_times, forbidden_counts |-> forbidden_counts,
     bc |-> bc, sw |-> sw, attempt_age |-> attempt_age, stale |-> stale,
     stale_writes |-> stale_writes, calls |-> calls, dispatches |-> dispatches]

Commit(S) ==
    /\ channels' = S.channels
    /\ posts' = S.posts
    /\ outbox' = S.outbox
    /\ last_sent_times' = S.last_sent_times
    /\ forbidden_counts' = S.forbidden_counts
    /\ bc' = S.bc
    /\ sw' = S.sw
    /\ attempt_age' = S.attempt_age
    /\ stale' = S.stale
    /\ stale_writes' = S.stale_writes
    /\ calls' = S.calls
    /\ dispatches' = S.dispatches

\* A transport call to channel ch starts now.
NoteAttempt(S, ch) == [S EXCEPT !.attempt_age[ch] = 0]

\* ------------------------------------------------- channel registry
\* add_channel without the membership test of line 204
add_channel_unchecked(S, chat_identifier) ==
    [S EXCEPT !.channels = Append(S.channels, chat_identifier)]

add_channel(S, chat_identifier) ==
    IF Contains(S.channels, chat_identifier) THEN S
    ELSE [S EXCEPT !.channels = Append(S.channels, chat_identifier)]

\* The value add_channel returns (lines 205 and 209).
add_channel_returns(S, chat_identifier) == ~Contains(S.channels, chat_identifier)

\* remove_channel without the save of line 218
remove_channel_unsaved(S, chat_identifier) == S

\* The value remove_channel returns (lines 216 and 220).
remove_channel_returns(S, chat_identifier) == Contains(S.channels, chat_identifier)

remove_channel(S, chat_identifier) ==
    IF ~Contains(S.channels, chat_identifier) THEN S
    ELSE [S EXCEPT !.channels = ListRemove(S.channels, chat_identifier)]

\* ------------------------------------------------------------ ledger
\* record_post saving only the new entry, as if posts.json had not been loaded
record_post_overwrite(S, meta) == [S EXCEPT !.posts = <<meta>>]

\* record_post putting the new entry in front of the loaded list
record_post_prepend(S, meta) == [S EXCEPT !.posts = <<meta>> \o S.posts]

record_post(S, meta) == [S EXCEPT !.posts = Append(S.posts, meta)]

\* ---------------------------------------------------- broadcast_copy
CurrentChannel(S, t) == S.bc[t].channels[S.bc[t].i]

AppendResult(S, t, st) ==
    [S EXCEPT !.bc[t].results = Append(@, Outcome(CurrentChannel(S, t), st))]

\* The code after the retry loop sleeping for the jitter alone
FinishChannel_jitter_only(S, t, success, j) ==
    LET ch == CurrentChannel(S, t)
        S1 == IF ~success /\ S.bc[t].attempt >= config.retry
              THEN AppendResult(S, t, "failed") ELSE S
    IN [S1 EXCEPT !.last_sent_times[ch] = 0,
                  !.bc[t].pc = "pace",
                  !.bc[t].err_name = "",
                  !.bc[t].slept = 0,
                  !.bc[t].wake = j]

\* Lines 288-296: the code after the retry loop; j is the jitter drawn.
FinishChannel(S, t, success, j) ==
    LET ch == CurrentChannel(S, t)
        S1 == IF ~success /\ S.bc[t].attempt >= config.retry
              THEN AppendResult(S, t, "failed") ELSE S
    IN [S1 EXCEPT !.last_sent_times[ch] = 0,
                  !.bc[t].pc = "pace",
                  !.bc[t].err_name = "",
                  !.bc[t].slept = 0,
                  !.bc[t].wake = INTER_SEND_DELAY + j]

\* The loop condition of line 258 letting one attempt too many through
StartAttempt_one_more(S, t, j) ==
    IF S.bc[t].attempt <= config.retry
    THEN NoteAttempt([S EXCEPT !.bc[t].pc = "send", !.bc[t].err_name = ""],
                     CurrentChannel(S, t))
    ELSE FinishChannel(S, t, FALSE, j)

\* Lines 258-260: the loop condition, then the call of copy_message.
StartAttempt(S, t, j) ==
    IF S.bc[t].attempt < config.retry
    THEN NoteAttempt([S EXCEPT !.bc[t].pc = "send", !.bc[t].err_name = ""],
                     CurrentChannel(S, t))
    ELSE FinishChannel(S, t, FALSE, j)

\* A loop that reads the registry again at every channel
EnterChannel_rereads(S, t, i, j) ==
    LET live == IF i <= Len(S.channels) THEN S.channels ELSE S.bc[t].channels
        ch == live[i]
        elapsed == S.last_sent_times[ch]
        S1 == [S EXCEPT !.bc[t].i = i, !.bc[t].attempt = 0, !.bc[t].slept = 0,
                        !.bc[t].channels = live]
    IN IF elapsed # NoEntry /\ elapsed < PER_CHANNEL_COOLDOWN
       THEN [S1 EXCEPT !.bc[t].pc = "cool",
                       !.bc[t].wake = PER_CHANNEL_COOLDOWN - elapsed]
       ELSE StartAttempt(S1, t, j)

\* The next channel of the loop entered without the cooldown of lines 246-254
EnterChannel_no_cooldown(S, t, i, j) ==
    StartAttempt([S EXCEPT !.bc[t].i = i, !.bc[t].attempt = 0, !.bc[t].slept = 0], t, j)

\* Lines 244-256: the next channel of the loop and its cooldown.
EnterChannel(S, t, i, j) ==
    LET ch == S.bc[t].channels[i]
        elapsed == S.last_sent_times[ch]
        S1 == [S EXCEPT !.bc[t].i = i, !.bc[t].attempt = 0, !.bc[t].slept = 0]
    IN IF elapsed # NoEntry /\ elapsed < PER_CHANNEL_COOLDOWN
       THEN [S1 EXCEPT !.bc[t].pc = "cool",
                       !.bc[t].wake = PER_CHANNEL_COOLDOWN - elapsed]
       ELSE StartAttempt(S1, t, j)

\* The Forbidden branch without the REMOVE_ON_FORBIDDEN test of line 273
OnForbidden_flag_ignored(S, t) ==
    LET ch == CurrentChannel(S, t)
        S1 == [S EXCEPT !.forbidden_counts[ch] = @ + 1]
    IN IF S1.forbidden_counts[ch] >= config.threshold
       THEN [S |-> AppendResult(remove_channel(S1, ch), t, "forbidden"), break |-> TRUE]
       ELSE [S |-> S1, break |-> FALSE]

\* Lines 270-284: a Forbidden error.  TRUE in .break when the loop is left.
OnForbidden(S, t) ==
    LET ch == CurrentChannel(S, t)
        S1 == [S EXCEPT !.forbidden_counts[ch] = @ + 1]
    IN IF config.remove /\ S1.forbidden_counts[ch] >= config.threshold
       THEN [S |-> AppendResult(remove_channel(S1, ch), t, "forbidden"), break |-> TRUE]
       ELSE [S |-> S1, break |-> FALSE]

\* Lines 260-263: copy_message returned.
OnSendOk(S, t) == AppendResult(S, t, "ok")

\* A result handler whose except clause lets errors other than Forbidden
\* through: the exception leaves broadcast_copy
OnSendResult_propagates(S, t, r, j) ==
    IF r = "ok" THEN FinishChannel(OnSendOk(S, t), t, TRUE, j)
    ELSE IF r # "Forbidden" THEN [S EXCEPT !.bc[t] = IdleFrame]
    ELSE LET S1 == [S EXCEPT !.bc[t].attempt = @ + 1]
             F == OnForbidden(S1, t)
         IN IF F.break THEN FinishChannel(F.S, t, FALSE, j)
            ELSE [F.S EXCEPT !.bc[t].pc = "retry", !.bc[t].err_name = r,
                             !.bc[t].wake = SEND_RETRY_DELAY]

\* A result handler that leaves out the attempt += 1 of line 266
OnSendResult_uncounted(S, t, r, j) ==
    IF r = "ok" THEN FinishChannel(OnSendOk(S, t), t, TRUE, j)
    ELSE LET F == IF r = "Forbidden" THEN OnForbidden(S, t)
                  ELSE [S |-> S, break |-> FALSE]
         IN IF F.break THEN FinishChannel(F.S, t, FALSE, j)
            ELSE [F.S EXCEPT !.bc[t].pc = "retry", !.bc[t].err_name = r,
                             !.bc[t].wake = SEND_RETRY_DELAY]

\* Lines 260-286: the await of copy_message ends with result r.
OnSendResult(S, t, r, j) ==
    IF r = "ok" THEN FinishChannel(OnSendOk(S, t), t, TRUE, j)
    ELSE LET S1 == [S EXCEPT !.bc[t].attempt = @ + 1]
             F == IF r = "Forbidden" THEN OnForbidden(S1, t)
                  ELSE [S |-> S1, break |-> FALSE]
         IN IF F.break THEN FinishChannel(F.S, t, FALSE, j)
            ELSE [F.S EXCEPT !.bc[t].pc = "retry", !.bc[t].err_name = r,
                             !.bc[t].wake = SEND_RETRY_DELAY]

\* Lines 234-245: the call, up to the first suspending await.  A call that
\* finds no channels returns at once (write_log is a no-op) and leaves the
\* frame idle.
BroadcastCopy(S, t, message_id, j) ==
    IF S.channels = <<>>
    THEN [S EXCEPT !.bc[t] = IdleFrame, !.calls.empty = @ + 1]
    ELSE EnterChannel(
             [S EXCEPT !.bc = [u \in Callers |->
                 IF u = t
                 THEN [IdleFrame EXCEPT !.channels = S.channels,
                                        !.mid = message_id,
                                        !.alone = \A v \in Callers \ {t} : ~InCall(S.bc[v])]
                 ELSE [S.bc[u] EXCEPT !.alone = FALSE]]],
             t, 1, j)

\* Line 297 and the return: the ledger entry of a call that went through
\* its channels.
BroadcastFinish(S, t) ==
    LET S1 == record_post(S, [message_id |-> S.bc[t].mid, results |-> S.bc[t].results])
    IN [S1 EXCEPT !.bc[t] = IdleFrame, !.calls.nonempty = @ + 1]

\* ------------------------------------------------------- outbox_loop
\* Promote without the status test of line 756
Promote_any_status(ob) ==
    [n \in DOMAIN ob |->
        IF TicksUntil(ob[n].send_at) <= 0
        THEN [ob[n] EXCEPT !.status = "sending"]
        ELSE ob[n]]

\* Promote taking entries one tick before their send_at
Promote_early(ob) ==
    [n \in DOMAIN ob |->
        IF ob[n].status = "pending" /\ TicksUntil(ob[n].send_at) <= 1
        THEN [ob[n] EXCEPT !.status = "sending"]
        ELSE ob[n]]

\* Lines 755-762: every pending entry whose send_at has come is marked.
Promote(ob) ==
    [n \in DOMAIN ob |->
        IF ob[n].status = "pending" /\ TicksUntil(ob[n].send_at) <= 0
        THEN [ob[n] EXCEPT !.status = "sending"]
        ELSE ob[n]]

\* Line 758 raises on the first pending entry whose send_at does not parse.
PromoteRaises(ob) ==
    \E n \in DOMAIN ob : ob[n].status = "pending" /\ ~ParsesOk(ob[n].send_at)

\* An entry counted as failed when the registry is empty
MarkSent_needs_channels(S, k) ==
    IF S.channels = <<>> THEN [S EXCEPT !.sw.outbox[k].status = "error"]
    ELSE [S EXCEPT !.sw.outbox[k].status = "sent", !.sw.outbox[k].sent_at = TRUE]

\* An entry left as it is after its broadcast
MarkSent_unmarked(S, k) == S

\* Lines 773-774.
MarkSent(S, k) ==
    [S EXCEPT !.sw.outbox[k].status = "sent", !.sw.outbox[k].sent_at = TRUE]

\* Lines 797-799.
MarkFileSent(S, k, results) ==
    [MarkSent(S, k) EXCEPT !.sw.outbox[k].results = results]

\* Lines 777-778 and 802-803.
MarkError(S, k) == [S EXCEPT !.sw.outbox[k].status = "error"]

\* Line 806.
MarkUnknown(S, k) == [S EXCEPT !.sw.outbox[k].status = "unknown_type"]

\* Lines 808-812: the outbox the iteration holds is saved, then the loop sleeps.
SweepSave(S) ==
    [S EXCEPT !.outbox = S.sw.outbox,
              !.stale_writes = IF S.stale THEN @ \cup {"outbox"} ELSE @,
              !.stale = FALSE,
              !.sw = SleepingSweep(SWEEP_INTERVAL)]

\* Lines 783-792: the file path sends to the next channel of its list.
FileSend(S, k, fi) ==
    NoteAttempt([S EXCEPT !.sw.pc = "file", !.sw.k = k, !.sw.fi = fi],
                S.sw.fchannels[fi])

\* Lines 767-809: the dispatch loop from entry k on, up to the first
\* suspending await or, when there is none, through the save.
RECURSIVE SweepDispatch(_, _, _)
SweepDispatch(S0, k, j) ==
    IF k > Len(S0.sw.outbox) THEN SweepSave(S0)
    ELSE LET entry == S0.sw.outbox[k]
             S == [S0 EXCEPT !.dispatches[entry.message_id] = @ + 1] IN
         IF entry.status # "sending" THEN SweepDispatch(S0, k + 1, j)
         ELSE IF entry.type = "copy" THEN
             IF ~entry.has_ref THEN SweepDispatch(MarkError(S, k), k + 1, j)
             ELSE LET S1 == BroadcastCopy(S, SweepTask, entry.message_id, j) IN
                  IF S1.bc[SweepTask].pc = "idle"
                  THEN SweepDispatch(MarkSent(S1, k), k + 1, j)
                  ELSE [S1 EXCEPT !.sw.pc = "copy", !.sw.k = k]
         ELSE IF entry.type = "file" THEN
             IF S.channels = <<>> THEN SweepDispatch(MarkFileSent(S, k, <<>>), k + 1, j)
             ELSE FileSend([S EXCEPT !.sw.fchannels = S.channels,
                                     !.sw.fresults = <<>>], k, 1)
         ELSE SweepDispatch(MarkUnknown(S, k), k + 1, j)

\* An iteration whose error leaves the while loop: the task ends
SweepStart_uncaught(S, j) ==
    IF PromoteRaises(S.outbox)
    THEN [S EXCEPT !.sw = [SleepingSweep(0) EXCEPT !.pc = "ended"]]
    ELSE LET ob == Promote(S.outbox)
         IN SweepDispatch([S EXCEPT !.outbox = ob, !.sw.outbox = ob, !.stale = FALSE],
                          1, j)

\* Lines 749-766: one iteration starts; the snapshot is promoted and saved
\* under the lock, or line 758 raises and the iteration ends in line 810.
SweepStart(S, j) ==
    IF PromoteRaises(S.outbox)
    THEN [S EXCEPT !.sw = SleepingSweep(SWEEP_INTERVAL)]
    ELSE LET ob == Promote(S.outbox)
         IN SweepDispatch([S EXCEPT !.outbox = ob, !.sw.outbox = ob, !.stale = FALSE],
                          1, j)

\* A file path that records the cooldown clock of the channel it sent to
OnFileResult_clocked(S, r, j) ==
    LET k == S.sw.k
        ch == S.sw.fchannels[S.sw.fi]
        S1 == [S EXCEPT !.sw.fresults = Append(@, Outcome(ch, r)),
                        !.last_sent_times[ch] = 0]
    IN IF S.sw.fi < Len(S.sw.fchannels) THEN FileSend(S1, k, S.sw.fi + 1)
       ELSE SweepDispatch(
                [MarkFileSent(S1, k, S1.sw.fresults) EXCEPT !.sw.fchannels = <<>>,
                     !.sw.fresults = <<>>, !.sw.fi = 0],
                k + 1, j)

\* A file path whose failed send reaches the outer except of line 801
OnFileResult_error_escapes(S, r, j) ==
    LET k == S.sw.k
        ch == S.sw.fchannels[S.sw.fi]
        S1 == [S EXCEPT !.sw.fresults = Append(@, Outcome(ch, r))]
    IN IF r = "error"
       THEN SweepDispatch(
                [MarkError(S, k) EXCEPT !.sw.fchannels = <<>>,
                     !.sw.fresults = <<>>, !.sw.fi = 0],
                k + 1, j)
       ELSE IF S.sw.fi < Len(S.sw.fchannels) THEN FileSend(S1, k, S.sw.fi + 1)
       ELSE SweepDispatch(
                [MarkFileSent(S1, k, S1.sw.fresults) EXCEPT !.sw.fchannels = <<>>,
                     !.sw.fresults = <<>>, !.sw.fi = 0],
                k + 1, j)

\* Lines 793-799: a send of the file path ended with result r.
OnFileResult(S, r, j) ==
    LET k == S.sw.k
        ch == S.sw.fchannels[S.sw.fi]
        S1 == [S EXCEPT !.sw.fresults = Append(@, Outcome(ch, r))]
    IN IF S.sw.fi < Len(S.sw.fchannels) THEN FileSend(S1, k, S.sw.fi + 1)
       ELSE SweepDispatch(
                [MarkFileSent(S1, k, S1.sw.fresults) EXCEPT !.sw.fchannels = <<>>,
                     !.sw.fresults = <<>>, !.sw.fi = 0],
                k + 1, j)

\* Lines 772-775: broadcast_copy returned to the sweep.
OnCopyReturned(S, j) == SweepDispatch(MarkSent(S, S.sw.k), S.sw.k + 1, j)

\* ------------------------------------------------------ handle_schedule
\* Lines 696-707: load, append, save, with no await in between.
handle_schedule(S, mid, send_at) ==
    [S EXCEPT !.outbox = Append(@, NewEntry(mid, "copy", [ok |-> TRUE, t |-> send_at],
                                            "pending")),
              !.stale = @ \/ S.sw.pc # "sleep"]

\* ------------------------------------------------------------- Init
\* The outbox file as the process finds it: entries written by an earlier
\* run or by the UI tool that queues file posts.
InitEntryKinds ==
    { [type |-> "copy",  send_at |-> [ok |-> TRUE,  t |-> 0], status |-> "pending", has_ref |-> TRUE],
      [type |-> "copy",  send_at |-> [ok |-> FALSE, t |-> 0], status |-> "pending", has_ref |-> TRUE],
      [type |-> "copy",  send_at |-> [ok |-> TRUE,  t |-> 0], status |-> "sending", has_ref |-> TRUE],
      [type |-> "copy",  send_at |-> [ok |-> TRUE,  t |-> 0], status |-> "pending", has_ref |-> FALSE],
      [type |-> "file",  send_at |-> [ok |-> TRUE,  t |-> 0], status |-> "pending", has_ref |-> TRUE],
      [type |-> "other", send_at |-> [ok |-> TRUE,  t |-> 0], status |-> "pending", has_ref |-> TRUE] }

InitOutboxes(len) ==
    { [n \in 1..len |->
          [NewEntry(n, f[n].type, f[n].send_at, f[n].status)
             EXCEPT !.has_ref = f[n].has_ref]] :
      f \in [1..len -> InitEntryKinds] }

Scopes ==
    { [ids |-> 1..c, init |-> n, msgs |-> MaxLoad - c - n] :
      c \in 1..NumChannelIds, n \in 0..MaxInitOutbox }

\* FORBIDDEN_THRESHOLD is read only where REMOVE_ON_FORBIDDEN is set.
Configs ==
    { c \in [retry : 1..MaxRetryCount, threshold : 1..MaxThreshold, remove : BOOLEAN] :
        c.remove \/ c.threshold = 1 }

Init ==
    /\ scope \in Scopes
    /\ config \in Configs
    /\ channels = <<>>
    /\ posts = <<>>
    /\ outbox \in InitOutboxes(scope.init)
    /\ startup_sending = {n \in DOMAIN outbox : outbox[n].status = "sending"}
    /\ last_sent_times = [c \in ChannelIds |-> NoEntry]
    /\ forbidden_counts = [c \in ChannelIds |-> 0]
    /\ bc = [t \in Callers |-> IdleFrame]
    /\ sw = SleepingSweep(0)
    /\ next_mid = scope.init + 1
    /\ attempt_age = [c \in ChannelIds |-> PER_CHANNEL_COOLDOWN]
    /\ scheduled = {}
    /\ stale = FALSE
    /\ stale_writes = {}
    /\ calls = [empty |-> 0, nonempty |-> 0]
    /\ dispatches = [m \in 1..MaxLoad |-> 0]

\* ---------------------------------------------------------- actions
Jitters == 0..JITTER
SendResults == {"ok", "Forbidden", "Error"}
FileResults == {"ok", "error"}

Older(age) == IF age = NoEntry \/ age >= PER_CHANNEL_COOLDOWN THEN age ELSE age + 1
Nearer(ticks) == IF ticks > 0 THEN ticks - 1 ELSE 0
NearerDue(ob) == [n \in DOMAIN ob |-> [ob[n] EXCEPT !.send_at.t = Nearer(@)]]

\* One tick of time passes.
Tick ==
    /\ last_sent_times' = [c \in ChannelIds |-> Older(last_sent_times[c])]
    /\ attempt_age' = [c \in ChannelIds |-> Older(attempt_age[c])]
    /\ bc' = [t \in Callers |->
                [bc[t] EXCEPT !.wake = Nearer(@),
                              !.slept = IF bc[t].pc = "pace" /\ @ < INTER_SEND_DELAY
                                        THEN @ + 1 ELSE @]]
    /\ sw' = [sw EXCEPT !.wake = Nearer(@), !.outbox = NearerDue(@)]
    /\ outbox' = NearerDue(outbox)
    /\ UNCHANGED <<scope, startup_sending, config, channels, posts, forbidden_counts, next_mid,
                   scheduled, stale, stale_writes, calls, dispatches>>

\* handle_addchannel, lines 307-339
AddChannel(c) ==
    /\ Commit(add_channel(Cur, c))
    /\ UNCHANGED <<scope, startup_sending, config, next_mid, scheduled>>

\* handle_removechannel, lines 342-360
RemoveChannel(c) ==
    /\ Commit(remove_channel(Cur, c))
    /\ UNCHANGED <<scope, startup_sending, config, next_mid, scheduled>>

\* handle_message, lines 720-737, up to the await of reply_text.  With no
\* channel the handler replies and returns, which changes nothing.
HandleMessage(t) ==
    /\ bc[t].pc = "idle"
    /\ next_mid <= scope.init + scope.msgs
    /\ channels # <<>>
    /\ Commit([Cur EXCEPT !.bc[t].pc = "reply", !.bc[t].mid = next_mid])
    /\ next_mid' = next_mid + 1
    /\ UNCHANGED <<scope, startup_sending, config, scheduled>>

\* handle_message, line 740: the call of broadcast_copy
ReplySent(t, j) ==
    /\ bc[t].pc = "reply"
    /\ Commit(BroadcastCopy(Cur, t, bc[t].mid, j))
    /\ UNCHANGED <<scope, startup_sending, config, next_mid, scheduled>>

\* handle_schedule, lines 648-717
HandleSchedule(d) ==
    /\ next_mid <= scope.init + scope.msgs
    /\ Commit(handle_schedule(Cur, next_mid, d))
    /\ scheduled' = scheduled \cup {next_mid}
    /\ next_mid' = next_mid + 1
    /\ UNCHANGED <<scope, startup_sending, config>>

\* broadcast_copy, line 254: the cooldown sleep is over
CooldownElapsed(t, j) ==
    /\ bc[t].pc = "cool"
    /\ bc[t].wake = 0
    /\ Commit(StartAttempt([Cur EXCEPT !.bc[t].wake = 0], t, j))
    /\ UNCHANGED <<scope, startup_sending, config, next_mid, scheduled>>

\* broadcast_copy, line 260: copy_message returns or raises
SendReturns(t, r, j) ==
    /\ bc[t].pc = "send"
    /\ Commit(OnSendResult(Cur, t, r, j))
    /\ UNCHANGED <<scope, startup_sending, config, next_mid, scheduled>>

\* broadcast_copy, line 286: the retry sleep is over
RetryDelayElapsed(t, j) ==
    /\ bc[t].pc = "retry"
    /\ bc[t].wake = 0
    /\ Commit(StartAttempt([Cur EXCEPT !.bc[t].wake = 0], t, j))
    /\ UNCHANGED <<scope, startup_sending, config, next_mid, scheduled>>

\* broadcast_copy, line 296: the inter-send sleep is over; the next channel,
\* or line 297 and the return to the caller
PaceElapsed(t, j) ==
    /\ bc[t].pc = "pace"
    /\ bc[t].wake = 0
    /\ LET S == [Cur EXCEPT !.bc[t].wake = 0]
       IN IF bc[t].i < Len(bc[t].channels)
          THEN Commit(EnterChannel(S, t, bc[t].i + 1, j))
          ELSE IF t = SweepTask
               THEN Commit(OnCopyReturned(BroadcastFinish(S, t), j))
               ELSE Commit(BroadcastFinish(S, t))
    /\ UNCHANGED <<scope, startup_sending, config, next_mid, scheduled>>

\* outbox_loop, line 812: the sleep is over and an iteration starts
SweepWakes(j) ==
    /\ sw.pc = "sleep"
    /\ sw.wake = 0
    /\ Commit(SweepStart(Cur, j))
    /\ UNCHANGED <<scope, startup_sending, config, next_mid, scheduled>>

\* outbox_loop, lines 790-796: send_document / send_message returns or raises
FileSendReturns(r, j) ==
    /\ sw.pc = "file"
    /\ Commit(OnFileResult(Cur, r, j))
    /\ UNCHANGED <<scope, startup_sending, config, next_mid, scheduled>>

Next ==
    \/ Tick
    \/ \E c \in scope.ids : AddChannel(c)
    \/ \E c \in scope.ids : RemoveChannel(c)
    \/ \E t \in Handlers : HandleMessage(t)
    \/ \E t \in Handlers, j \in Jitters : ReplySent(t, j)
    \/ \E d \in 0..MaxDelay : HandleSchedule(d)
    \/ \E t \in Callers, j \in Jitters : CooldownElapsed(t, j)
    \/ \E t \in Callers, r \in SendResults, j \in Jitters : SendReturns(t, r, j)
    \/ \E t \in Callers, j \in Jitters : RetryDelayElapsed(t, j)
    \/ \E t \in Callers, j \in Jitters : PaceElapsed(t, j)
    \/ \E j \in Jitters : SweepWakes(j)
    \/ \E r \in FileResults, j \in Jitters : FileSendReturns(r, j)

Spec == Init /\ [][Next]_vars

\* ------------------------------------------------------------ claims
ResultChannels(results) == [n \in DOMAIN results |-> results[n].channel]
Last(s) == s[Len(s)]
Terminal == {"sent", "error", "unknown_type"}

\* The step in which caller t's broadcast_copy passes line 297 and returns.
Returns(t) == bc[t].pc = "pace" /\ bc'[t].pc = "idle"

\* Frame t changes in the step, in more than its history flag alone.
FrameMoves(t) == [bc'[t] EXCEPT !.alone = bc[t].alone] # bc[t]

\* The step in which copy_message of caller t ends.
SendEnds(t) == bc[t].pc = "send" /\ FrameMoves(t)

\* The step in which an iteration of outbox_loop starts.
IterationStarts == sw.pc = "sleep" /\ sw.wake = 0 /\ sw' # sw

\* No send to ch has succeeded so far in this process.
NeverOk(ch) ==
    /\ \A n \in DOMAIN posts : \A m \in DOMAIN posts[n].results :
          posts[n].results[m] # Outcome(ch, "ok")
    /\ \A t \in Callers : \A m \in DOMAIN bc[t].results :
          bc[t].results[m] # Outcome(ch, "ok")

\* C1: the results a broadcast call writes to the ledger hold exactly one
\* outcome for each channel the call attempted, in order: none twice, none
\* missing.
C1_OneOutcomePerChannel ==
    [][\A t \in Callers :
          Returns(t) =>
             /\ Len(posts') = Len(posts) + 1
             /\ ResultChannels(Last(posts').results) = bc[t].channels]_vars

C3_BanProperty ==
    [][\A t \in Callers :
          (/\ SendEnds(t)
           /\ config.remove
           /\ NeverOk(bc[t].channels[bc[t].i])
           /\ forbidden_counts'[bc[t].channels[bc[t].i]]
                 # forbidden_counts[bc[t].channels[bc[t].i]]
           /\ forbidden_counts'[bc[t].channels[bc[t].i]] >= config.threshold)
          => /\ ~Contains(channels', bc[t].channels[bc[t].i])
             /\ bc'[t].results =
                   Append(bc[t].results, Outcome(bc[t].channels[bc[t].i], "forbidden"))]_vars

\* C4: every entry a schedule request has persisted is still in the stored
\* outbox.
C4_ScheduledKept ==
    \A mid \in scheduled : \E n \in DOMAIN outbox : outbox[n].message_id = mid

\* C5: no collection of the store has been saved from a read that another
\* task's save had superseded.
C5_NoStaleWrite == stale_writes = {}

\* C6: in the stored outbox an entry's status only moves forward along
\* pending, sending, {sent, error, unknown_type}.
StatusStep(a, b) ==
    \/ a = b
    \/ a = "pending" /\ b \in {"sending"} \cup Terminal
    \/ a = "sending" /\ b \in Terminal

C6_OutboxMonotonic ==
    [][\A n \in DOMAIN outbox : \A m \in DOMAIN outbox' :
          outbox[n].message_id = outbox'[m].message_id
             => StatusStep(outbox[n].status, outbox'[m].status)]_vars

C6_Witness ==
    /\ stale_writes # {}
    /\ \E n \in DOMAIN outbox :
          outbox[n].message_id \in scheduled /\ outbox[n].status = "sent"

\* C7: the first send attempt of a broadcast call to a channel starts at
\* least per_channel_cooldown after the previous send attempt to that channel.
C7_Cooldown ==
    [][\A t \in Callers :
          (bc'[t].pc = "send" /\ bc[t].pc # "send" /\ bc'[t].attempt = 0)
          => attempt_age[bc'[t].channels[bc'[t].i]] >= PER_CHANNEL_COOLDOWN]_vars

\* C8: an iteration of the sweep promotes every well-formed entry that is
\* pending and due, whatever else the outbox holds.
C8_SweepNotWedged ==
    [][IterationStarts =>
          \A n \in DOMAIN outbox :
             (/\ outbox[n].status = "pending"
              /\ ParsesOk(outbox[n].send_at)
              /\ TicksUntil(outbox[n].send_at) <= 0)
             => /\ n \in DOMAIN outbox'
                /\ outbox'[n].status # "pending"]_vars

\* C9: a successful send to a channel leaves its forbidden count at zero.
C9_ResetOnSuccess ==
    [][\A t \in Callers :
          (/\ SendEnds(t)
           /\ Len(bc'[t].results) > Len(bc[t].results)
           /\ Last(bc'[t].results).status = "ok")
          => forbidden_counts'[bc[t].channels[bc[t].i]] = 0]_vars

\* C10: the auto-removal of a channel leaves its forbidden count at zero.
C10_ClearedOnRemoval ==
    [][\A t \in Callers :
          (/\ SendEnds(t)
           /\ Contains(channels, bc[t].channels[bc[t].i])
           /\ ~Contains(channels', bc[t].channels[bc[t].i]))
          => forbidden_counts'[bc[t].channels[bc[t].i]] = 0]_vars

\* C11: a permanent rejection is not retried: once a send attempt to a
\* channel has failed with Forbidden, the same call makes no further
\* attempt to that channel.
C11_ForbiddenNotRetried ==
    [][\A t \in Callers :
          bc[t].pc = "retry" /\ bc[t].err_name = "Forbidden" => bc'[t].pc # "send"]_vars

\* C12: errors are retried up to retry_count attempts per channel per call.
\* bc[t].attempt counts the failed attempts to the current channel, so the
\* attempts made are attempt, plus one while a send is in flight.  The
\* attempts never exceed retry_count; no attempt is made for a channel that
\* already has an outcome; when the channel is done, `ok` came from an
\* attempt within the limit, and retry_count failed attempts give `failed`.
C12_RetryUpToCount ==
    \A t \in Callers :
        LET f == bc[t] IN
        /\ f.attempt <= config.retry
        /\ f.pc = "send" => f.attempt + 1 <= config.retry
        /\ f.pc \in {"cool", "send", "retry"} =>
               \A n \in DOMAIN f.results : f.results[n].channel # f.channels[f.i]
        /\ f.pc = "pace" =>
               /\ f.results # <<>>
               /\ Last(f.results).channel = f.channels[f.i]
               /\ Last(f.results).status = "ok" => f.attempt < config.retry
               /\ Last(f.results).status = "failed" => f.attempt = config.retry
               /\ f.attempt = config.retry => Last(f.results).status = "failed"

\* A channel answered `ok` on the last attempt allowed, after transient
\* errors only.
C12_Witness ==
    \E t \in Callers :
        /\ bc[t].pc = "pace"
        /\ bc[t].attempt >= 1
        /\ bc[t].attempt + 1 = config.retry
        /\ Last(bc[t].results).status = "ok"
        /\ \A c \in ChannelIds : forbidden_counts[c] = 0

\* C13: an entry that outbox.json held as `sending` when the
\* process started is never dispatched by the sweep: it stays `sending` and
\* is never the entry the dispatch loop is working on.
C13_StartupSendingNotDispatched ==
    \A n \in startup_sending :
        /\ outbox[n].status = "sending"
        /\ sw.pc # "sleep" => sw.k # n

\* C14: no entry is dispatched early.  An entry whose send_at is still in
\* the future is `pending`, in outbox.json and in the snapshot of a running
\* iteration, and the entry the dispatch loop is sending has a send_at that
\* has come.
C14_NoEarlyDispatch ==
    /\ \A n \in DOMAIN outbox :
           TicksUntil(outbox[n].send_at) > 0 => outbox[n].status = "pending"
    /\ sw.pc # "sleep" =>
           /\ \A n \in DOMAIN sw.outbox :
                  TicksUntil(sw.outbox[n].send_at) > 0 => sw.outbox[n].status = "pending"
           /\ TicksUntil(sw.outbox[sw.k].send_at) <= 0

\* An iteration is sending a due entry while its snapshot also holds an
\* entry scheduled for later.
C14_Witness ==
    /\ sw.pc # "sleep"
    /\ \E n \in DOMAIN sw.outbox : TicksUntil(sw.outbox[n].send_at) > 0

\* C15: a well-formed copy entry that is pending and due when a sweep
\* iteration starts is taken by that iteration: if the iteration ends in the
\* same step the saved outbox shows the entry as sent with a sent_at, and
\* otherwise the running iteration holds it as sending or sent.
C15_DueCopySentInCycle ==
    [][IterationStarts =>
          \A n \in DOMAIN outbox :
             (/\ outbox[n].type = "copy"
              /\ outbox[n].has_ref
              /\ outbox[n].status = "pending"
              /\ ParsesOk(outbox[n].send_at)
              /\ TicksUntil(outbox[n].send_at) <= 0)
             => IF sw'.pc = "sleep"
                THEN outbox'[n].status = "sent" /\ outbox'[n].sent_at
                ELSE sw'.outbox[n].status \in {"sending", "sent"}]_vars

\* C16: registry idempotence.  For a registry that does not hold X: add(X)
\* returns true, and a second add(X) returns false and changes nothing;
\* remove(X) returns false and changes nothing; remove(X) after the add
\* returns true and gives back the registry as it was before the add.
C16_RegistryIdempotence ==
    \A x \in ChannelIds :
        ~Contains(channels, x) =>
            LET S0 == Cur
                S1 == add_channel(S0, x)
            IN /\ add_channel_returns(S0, x)
               /\ Contains(S1.channels, x)
               /\ ~add_channel_returns(S1, x)
               /\ add_channel(S1, x) = S1
               /\ ~remove_channel_returns(S0, x)
               /\ remove_channel(S0, x) = S0
               /\ remove_channel_returns(S1, x)
               /\ remove_channel(S1, x) = S0

\* The registry holds one channel, put there by an add, and lacks another.
C16_Witness ==
    /\ Len(channels) = 1
    /\ \E x \in scope.ids : ~Contains(channels, x)

\* C17: the channel registry never holds an identifier twice, whatever the
\* interleaving of adds, removes and removals by running broadcasts.
C17_NoDuplicateChannels ==
    \A m, n \in DOMAIN channels : channels[m] = channels[n] => m = n

\* A channel is in the registry again after a broadcast removed it, while a
\* broadcast that started before the removal is still running.
C17_Witness ==
    \E c \in ChannelIds :
        /\ config.remove
        /\ forbidden_counts[c] >= config.threshold
        /\ Contains(channels, c)
        /\ \E t \in Callers : bc[t].pc # "idle" /\ Contains(bc[t].channels, c)

\* C18: the ledger is append-only: in every step posts.json keeps all it
\* held, unchanged and in the same order, as a prefix of what it holds
\* next, also when broadcasts of a handler and of the sweep overlap.
C18_LedgerAppendOnly ==
    [][/\ Len(posts') >= Len(posts)
       /\ SubSeq(posts', 1, Len(posts)) = posts]_vars

\* The ledger holds the entry of a broadcast made by the sweep and the
\* entry of a broadcast made by a message handler.
C18_Witness ==
    \E p, q \in DOMAIN posts :
        /\ posts[p].message_id \in (1..scope.init) \cup scheduled
        /\ posts[q].message_id \notin (1..scope.init) \cup scheduled

\* C19: an iteration of the sweep that raises does not end the loop.  The
\* iteration goes to the sleep of line 812, for the fixed interval, and a
\* sweep whose sleep is over can start its next iteration although every
\* iteration on this outbox raises.
C19_RaiseKeepsLoop ==
    [][/\ IterationStarts /\ PromoteRaises(outbox) =>
             sw' = SleepingSweep(SWEEP_INTERVAL)
       /\ sw.pc = "sleep" /\ sw.wake = 0 /\ PromoteRaises(outbox) =>
             ENABLED <<\E j \in Jitters : SweepWakes(j)>>_vars]_vars

\* An iteration has raised and the loop sleeps until the next one.
C19_Witness ==
    /\ PromoteRaises(outbox)
    /\ sw.pc = "sleep"
    /\ sw.wake = SWEEP_INTERVAL

\* C20: no transport error leaves broadcast_copy.  Whatever a send attempt
\* answers, the call is still on the same channel afterwards, waiting to
\* retry or done with it; a call that is done with a channel goes on to the
\* next one; and the ledger entry of a call that returns holds an outcome
\* for every channel of its snapshot.
C20_ErrorsBecomeOutcomes ==
    [][\A t \in Callers :
          /\ SendEnds(t) =>
                /\ bc'[t].pc \in {"retry", "pace"}
                /\ bc'[t].channels = bc[t].channels
                /\ bc'[t].i = bc[t].i
                /\ bc'[t].pc = "pace" =>
                       Last(bc'[t].results).channel = bc[t].channels[bc[t].i]
          /\ (bc[t].pc = "pace" /\ bc'[t].pc # "pace" /\ bc[t].i < Len(bc[t].channels)) =>
                /\ bc'[t].pc \in {"cool", "send"}
                /\ bc'[t].i = bc[t].i + 1
                /\ bc'[t].results = bc[t].results
          /\ Returns(t) =>
                /\ bc[t].i = Len(bc[t].channels)
                /\ posts' = Append(posts, [message_id |-> bc[t].mid,
                                             results |-> bc[t].results])
                /\ \A n \in DOMAIN bc[t].channels :
                       \E m \in DOMAIN bc[t].results :
                          bc[t].results[m].channel = bc[t].channels[n]]_vars

\* A call whose first channel ended in an error outcome is sending to its
\* second channel.
C20_Witness ==
    \E t \in Callers :
        /\ bc[t].pc = "send"
        /\ bc[t].i = 2
        /\ bc[t].results[1].status \in {"failed", "forbidden"}

\* The frame holds the same call after the step: every call has a message
\* of its own, and the sweep may start its next call in the step in which
\* one returns.
SameCall(t) == InCall(bc'[t]) /\ bc'[t].mid = bc[t].mid

\* No sleep of broadcast_copy is longer than this.
WakeBound == PER_CHANNEL_COOLDOWN + SEND_RETRY_DELAY + INTER_SEND_DELAY + JITTER + 1

\* What a running call has left to do on its current channel: the cooldown
\* sleep, then up to retry attempts each followed by a retry sleep, then
\* the pacing sleep; a sleep counts with the ticks it still has to go.
PhaseLeft(f) ==
    CASE f.pc = "cool"  -> WakeBound * (2 * config.retry + 2) + f.wake
      [] f.pc = "send"  -> WakeBound * (2 * (config.retry - f.attempt) + 1)
      [] f.pc = "retry" -> WakeBound * (2 * (config.retry - f.attempt) + 2) + f.wake
      [] f.pc = "pace"  -> f.wake

\* What a frame has left to do: nothing when no call runs, else the rest
\* of the current channel and all of the channels after it.
WorkLeft(f) ==
    IF ~InCall(f) THEN 0
    ELSE 1 + (Len(f.channels) - f.i) * WakeBound * (2 * config.retry + 3) + PhaseLeft(f)

\* C21: a broadcast call runs to completion.  Every step that changes a
\* running call, a tick of one of its sleeps included, leaves it with less
\* work than before, so that a call whose sends return and whose sleeps
\* elapse comes to its end; and the call leaves its frame only by returning
\* from the last channel of the list it started with, with its ledger
\* entry written.
C21_CallTerminates ==
    [][\A t \in Callers :
          InCall(bc[t]) =>
             /\ (FrameMoves(t) /\ SameCall(t)) => WorkLeft(bc'[t]) < WorkLeft(bc[t])
             /\ SameCall(t) =>
                    /\ bc'[t].channels = bc[t].channels
                    /\ bc'[t].i \in {bc[t].i, bc[t].i + 1}
             /\ ~SameCall(t) =>
                    /\ bc[t].pc = "pace"
                    /\ bc[t].i = Len(bc[t].channels)
                    /\ posts' = Append(posts, [message_id |-> bc[t].mid,
                                                 results |-> bc[t].results])]_vars

\* A call over two channels has returned after its attempts to the first
\* one were used up.
C21_Witness ==
    \E p \in DOMAIN posts :
        /\ Len(posts[p].results) >= 2
        /\ posts[p].results[1].status = "failed"
        /\ Last(posts[p].results).channel # posts[p].results[1].channel

\* The sweep works on a file entry in this step: a send of the file path
\* returns, or an iteration starts and comes to a file entry.
FileStep ==
    \/ sw.pc = "file" /\ (sw'.pc # "file" \/ sw'.k # sw.k \/ sw'.fi # sw.fi)
    \/ IterationStarts /\ sw'.pc = "file"

\* C22: dispatching a file entry leaves the cooldown clock, the forbidden
\* counts, the channel registry and the ledger as they are, whatever the
\* sends answer.
C22_FileFrame ==
    [][FileStep =>
          /\ last_sent_times' = last_sent_times
          /\ forbidden_counts' = forbidden_counts
          /\ channels' = channels
          /\ posts' = posts]_vars

\* A file entry was sent to a channel, one send at least failed, and no
\* clock, count or ledger entry exists.
C22_Witness ==
    /\ \E n \in DOMAIN outbox :
           /\ outbox[n].type = "file"
           /\ outbox[n].status = "sent"
           /\ \E m \in DOMAIN outbox[n].results : outbox[n].results[m].status = "error"
    /\ \A c \in ChannelIds : last_sent_times[c] = NoEntry /\ forbidden_counts[c] = 0
    /\ posts = <<>>

\* The entry at position k as the step leaves it: in the saved outbox when
\* the iteration ended in the step, else in the iteration's snapshot.
EntryAfter(k) == IF sw'.pc = "sleep" THEN outbox'[k] ELSE sw'.outbox[k]

\* C23: a file entry stays `sending` while its channels are attempted;
\* when the last of them has answered the entry is `sent`, with a sent_at
\* and one result for each channel of the registry it read, in order; and no
\* file entry is ever in status `error`.
C23_FileEntrySent ==
    [][/\ sw'.pc = "file" => sw'.outbox[sw'.k].status = "sending"
       /\ (sw.pc = "file" /\ (sw'.pc # "file" \/ sw'.k # sw.k)) =>
             /\ sw.fi = Len(sw.fchannels)
             /\ EntryAfter(sw.k).status = "sent"
             /\ EntryAfter(sw.k).sent_at
             /\ ResultChannels(EntryAfter(sw.k).results) = sw.fchannels
       /\ \A n \in DOMAIN outbox' :
             outbox'[n].type = "file" => outbox'[n].status # "error"]_vars

\* A file entry is sent although the sends to both channels failed.
C23_Witness ==
    \E n \in DOMAIN outbox :
        /\ outbox[n].type = "file"
        /\ outbox[n].status = "sent"
        /\ Len(outbox[n].results) = 2
        /\ \A m \in DOMAIN outbox[n].results : outbox[n].results[m].status = "error"

\* A copy entry is `sent`, with a sent_at, only if the call of line 772 did
\* not raise, and `error` only if it raised.
CopyStatusOk(e) ==
    e.type = "copy" =>
        /\ e.status = "sent" => e.has_ref /\ e.sent_at
        /\ e.status = "error" => ~e.has_ref
        /\ e.status # "unknown_type"

\* C24: a copy entry is `sent` exactly when broadcast_copy returned without
\* raising, whatever the outcomes, and `error` only when the call raised.
\* While the call runs the entry is still `sending`; every entry the
\* dispatch loop has passed has a terminal status unless it is still
\* pending; and the loop only ever works on an entry that is `sending`, so a
\* terminal entry is not sent again.
C24_CopyEntryTerminal ==
    /\ \A n \in DOMAIN outbox : CopyStatusOk(outbox[n])
    /\ sw.pc = "sleep" => bc[SweepTask].pc = "idle"
    /\ sw.pc # "sleep" =>
          /\ \A n \in DOMAIN sw.outbox : CopyStatusOk(sw.outbox[n])
          /\ sw.outbox[sw.k].status = "sending"
          /\ \A n \in 1..(sw.k - 1) : sw.outbox[n].status \in Terminal \cup {"pending"}
          /\ sw.pc = "copy" <=> InCall(bc[SweepTask])
          /\ sw.pc = "copy" =>
                /\ sw.outbox[sw.k].type = "copy"
                /\ bc[SweepTask].mid = sw.outbox[sw.k].message_id

\* A copy entry is saved as sent although no send of its broadcast
\* succeeded.
C24_Witness ==
    \E n \in DOMAIN outbox : \E p \in DOMAIN posts :
        /\ outbox[n].type = "copy"
        /\ outbox[n].status = "sent"
        /\ posts[p].message_id = outbox[n].message_id
        /\ \A m \in DOMAIN posts[p].results : posts[p].results[m].status # "ok"

\* C25: in a run of one process the dispatch loop takes the entry of a
\* message at most once.
C25_DispatchedOnce == \A m \in DOMAIN dispatches : dispatches[m] <= 1

\* An entry dispatched by an earlier iteration is in the outbox a later
\* iteration loaded and is working on.
C25_Witness ==
    /\ sw.pc # "sleep"
    /\ \E n \in DOMAIN sw.outbox :
           /\ n \in DOMAIN outbox
           /\ outbox[n].status \in Terminal
           /\ dispatches[outbox[n].message_id] = 1

\* An outcome `forbidden` is among the results.
HasForbidden(results) == \E m \in DOMAIN results : results[m].status = "forbidden"

\* The step adds an outcome `forbidden` to the results of frame t.
AppendsForbidden(t) ==
    \E m \in DOMAIN bc'[t].results :
        m > Len(bc[t].results) /\ bc'[t].results[m].status = "forbidden"

\* C26: a broadcast changes the registry only in a step in which one of its
\* sends is answered Forbidden, removal is enabled and the count of that
\* channel has reached the threshold, and then it removes that channel and
\* nothing else; the outcome `forbidden` is recorded only in such a step;
\* with removal disabled no call and no ledger entry holds `forbidden`.
C26_RemovalOnlyAtThreshold ==
    [][\A t \in Callers :
          /\ (FrameMoves(t) /\ ~SendEnds(t)) =>
                channels' = channels /\ ~AppendsForbidden(t)
          /\ (SendEnds(t) /\ (channels' # channels \/ AppendsForbidden(t))) =>
                LET ch == bc[t].channels[bc[t].i] IN
                /\ config.remove
                /\ forbidden_counts'[ch] = forbidden_counts[ch] + 1
                /\ forbidden_counts'[ch] >= config.threshold
                /\ channels' = remove_channel(Cur, ch).channels
          /\ ~config.remove =>
                /\ ~HasForbidden(bc'[t].results)
                /\ \A p \in DOMAIN posts' : ~HasForbidden(posts'[p].results)]_vars

\* A broadcast has removed a channel it was sending to.
C26_Witness ==
    \E t \in Callers :
        /\ InCall(bc[t])
        /\ bc[t].results # <<>>
        /\ Last(bc[t].results).status = "forbidden"
        /\ ~Contains(channels, Last(bc[t].results).channel)

\* C27: the sends of one call are sequential, in the order of its list.
\* A call goes to its next channel, the one that follows in the list, only
\* from the sleep of line 296, after that sleep has lasted at least
\* INTER_SEND_DELAY, with an outcome recorded for the channel it leaves and
\* that channel's clock set; and a send is in flight only for the channel
\* the call is on, which has no outcome yet.
C27_SequentialSends ==
    [][\A t \in Callers :
          /\ (InCall(bc[t]) /\ SameCall(t) /\ bc'[t].i # bc[t].i) =>
                LET prev == bc[t].channels[bc[t].i] IN
                /\ bc'[t].i = bc[t].i + 1
                /\ bc'[t].channels = bc[t].channels
                /\ bc[t].pc = "pace"
                /\ bc[t].slept >= INTER_SEND_DELAY
                /\ \E m \in DOMAIN bc[t].results : bc[t].results[m].channel = prev
                /\ last_sent_times[prev] # NoEntry
                /\ bc'[t].results = bc[t].results
          /\ bc'[t].pc = "send" =>
                \A m \in DOMAIN bc'[t].results :
                   bc'[t].results[m].channel # bc'[t].channels[bc'[t].i]]_vars

\* A call is sending to the second channel of its list.
C27_Witness ==
    \E t \in Callers :
        /\ bc[t].pc = "send"
        /\ bc[t].i = 2
        /\ bc[t].results[1].status = "ok"

\* Frame t starts the first attempt to a channel in this step.
FirstAttempt(t) == bc'[t].pc = "send" /\ bc[t].pc # "send" /\ bc'[t].attempt = 0

\* C28: calls that do not overlap keep the cooldown.  When no other call
\* has run since a call started, every clock it meets was recorded by a
\* call that had returned before, and its first attempt to a channel comes
\* at least PER_CHANNEL_COOLDOWN after the latest such record, hence after
\* each of them.
C28_CooldownBetweenCalls ==
    [][\A t \in Callers :
          (FirstAttempt(t) /\ bc'[t].alone) =>
             LET ch == bc'[t].channels[bc'[t].i] IN
             \/ last_sent_times[ch] = NoEntry
             \/ last_sent_times[ch] >= PER_CHANNEL_COOLDOWN]_vars

\* A call that runs on its own waits for the cooldown of a channel whose
\* clock an earlier call recorded.
C28_Witness ==
    \E t \in Callers :
        /\ bc[t].pc = "cool"
        /\ bc[t].alone
        /\ bc[t].wake > 0

\* The identifiers a list of channels or of outcomes holds.
ChannelSet(s) == {s[n] : n \in DOMAIN s}

\* C29: a call works on the registry it read when it started.  The list
\* of a starting call is the registry of that moment and stays as it is
\* until the call returns, whatever is added or removed meanwhile; every
\* attempt goes to the channel of that list the call is on; and the
\* outcomes of a returning call are for exactly the channels of the list.
C29_RegistrySnapshot ==
    [][\A t \in Callers :
          /\ (InCall(bc'[t]) /\ ~(InCall(bc[t]) /\ SameCall(t))) =>
                bc'[t].channels = channels
          /\ (InCall(bc[t]) /\ SameCall(t)) => bc'[t].channels = bc[t].channels
          /\ (bc'[t].pc = "send" /\ bc[t].pc # "send") =>
                attempt_age'[bc'[t].channels[bc'[t].i]] = 0
          /\ (InCall(bc[t]) /\ ~SameCall(t)) =>
                /\ ChannelSet(ResultChannels(bc[t].results)) = ChannelSet(bc[t].channels)
                /\ Last(posts').results = bc[t].results]_vars

\* A running call holds a channel that has been removed from the registry
\* since, and the registry holds a channel the call does not know.
C29_Witness ==
    \E t \in Callers :
        /\ InCall(bc[t])
        /\ \E c \in ChannelSet(bc[t].channels) : ~Contains(channels, c)
        /\ \E c \in ChannelSet(channels) : ~Contains(bc[t].channels, c)

====
